---- MODULE Spec2Model ----
(***************************************************************************)
(* Model of evolutionary_optimization.py: the fitness evaluator            *)
(* (evaluate_design), the per-generation tracker (callback_monitor), the   *)
(* differential_evolution call with its arguments, and the reporting of    *)
(* the winner.                                                             *)
(*                                                                         *)
(* Numbers.  Genes are integers (cm, degrees).  Scores are integers in     *)
(* units of 1/10000: the sentinel 1000 is 10000000.  Load and stress terms *)
(* are in units of 1/1000.  A draw of the seeded generator is a 16 bit     *)
(* integer x standing for the real x/65536 in [0,1).                       *)
(***************************************************************************)
EXTENDS Integers, Sequences, FiniteSets

\* Two executions of the script (two processes), each with its own module globals.
Runs == {1, 2}

(***************************************************************************)
(* Program constants                                                       *)
(***************************************************************************)
bounds == <<<<50, 120>>, <<10, 30>>>>
maxiter == 15
popsize == 40
seed == 42
\* the "Death" limit of the stress term, and the score of a disqualified design
StressLimit == 50
Penalty == 1000

\* the documented configuration: the arguments of the differential_evolution call
Documented == [bounds |-> bounds, maxiter |-> maxiter, popsize |-> popsize, seed |-> seed]

(***************************************************************************)
(* Bounds of the model                                                     *)
(***************************************************************************)
\* np.random.rand() is modelled as r/NoiseDen for r in 0..NoiseDen-1
NoiseDen == 2
\* input configurations other than the documented one: generations, seeds
MaxIterCfg == 4
MaxSeed == 12
\* designs the evaluator is probed with: lengths 4k (k in 0..LengthSteps),
\* angles 5k-10 (k in 0..AngleSteps)
LengthSteps == 30
AngleSteps == 8

Abs(n) == IF n < 0 THEN -n ELSE n

Min2(a, b) == IF a <= b THEN a ELSE b

(***************************************************************************)
(* PART 2: the fitness function                                            *)
(***************************************************************************)
\* 1000 * sin(deg degrees), for an integer number of degrees: Bhaskara's rational
\* approximation of the sine (error below 0.002), odd and 360-periodic like np.sin.
SinMilli(deg) ==
    LET x == deg % 360
        h(y) == (4000 * y * (180 - y)) \div (40500 - y * (180 - y))
    IN  IF x <= 180 THEN h(x) ELSE -h(x - 180)

\* 60 + 5 sin(radians(angle)) - 0.1 |length - 100|, in 1/1000
load_reduction_score(genes) ==
    60000 + 5 * SinMilli(genes[2]) - 100 * Abs(genes[1] - 100)

\* the constant term written 3 instead of 30
stress_penalty_low(genes) == 3000 + 500 * genes[1] + 200 * genes[2]

\* 30 + 0.5 length + 0.2 angle, in 1/1000
stress_penalty(genes) == 30000 + 500 * genes[1] + 200 * genes[2]

\* 0.6 load - 0.4 stress, in 1/10000
fitness_score(genes) == 6 * load_reduction_score(genes) - 4 * stress_penalty(genes)

\* the limit test written >= instead of >
evaluate_design_ge(genes) ==
    IF stress_penalty(genes) >= StressLimit * 1000
    THEN Penalty * 10000
    ELSE -fitness_score(genes)

evaluate_design(genes) ==
    IF stress_penalty(genes) > StressLimit * 1000
    THEN Penalty * 10000
    ELSE -fitness_score(genes)

(***************************************************************************)
(* The seeded random stream of the engine (seed=42).  The generator is a   *)
(* deterministic function of its state; a 16 bit linear congruential       *)
(* generator stands for it.  A draw x is the real x/65536 in [0,1).        *)
(***************************************************************************)
NextRand(x) == (25173 * x + 13849) % 65536

SeedState(s) == NextRand(s % 65536)

\* the next k draws after state x (the state after them is the last draw);
\* computed by halves
RECURSIVE DrawSeq(_, _)
DrawSeq(x, k) ==
    IF k = 0 THEN <<>>
    ELSE IF k = 1 THEN <<NextRand(x)>>
    ELSE LET h == k \div 2
             a == DrawSeq(x, h)
         IN  a \o DrawSeq(a[h], k - h)

Swap(s, i, j) == [s EXCEPT ![i] = s[j], ![j] = s[i]]

\* rng.permutation of 1..n: the permutation that sorts n draws (equal draws in
\* the order drawn)
Permutation(n, x) ==
    LET d == DrawSeq(x, n)
        rank(i) == 1 + Cardinality({k \in 1..n : d[k] < d[i] \/ (d[k] = d[i] /\ k < i)})
    IN  [order |-> [i \in 1..n |-> rank(i)], rng |-> d[n]]

(***************************************************************************)
(* PART 4: the engine behind the differential_evolution call               *)
(* (strategy best1bin, and the defaults the call leaves in place:          *)
(* init latinhypercube, mutation (0.5, 1), recombination 0.7, tol 0.01,    *)
(* atol 0, updating immediate, polish on).                                 *)
(***************************************************************************)
\* the population holds max(5, popsize * number of genes) members
num_population_members(c) ==
    LET n == c.popsize * Len(c.bounds) IN IF n < 5 THEN 5 ELSE n

\* the engine maps [0,1) onto an interval by its midpoint and |low - high|
Low(c, j) == Min2(c.bounds[j][1], c.bounds[j][2])

Width(c, j) == Abs(c.bounds[j][1] - c.bounds[j][2])

\* the gene for the unit value num/den
scale_parameters(c, j, num, den) == Low(c, j) + (num * Width(c, j)) \div den

InBounds(c, x) ==
    \A j \in 1..2 : /\ x[j] >= Low(c, j)
                    /\ x[j] <= Low(c, j) + Width(c, j)

\* latin hypercube: member i's unit sample is (i - 1 + u)/NP, then the samples
\* of each gene are permuted among the members
init_population_lhs(c, x) ==
    LET NP == num_population_members(c)
        d  == DrawSeq(x, 2 * NP)
        s1 == Permutation(NP, d[2 * NP])
        s2 == Permutation(NP, s1.rng)
        sample(k, j) == (k - 1) * 65536 + d[(k - 1) * 2 + j]
    IN  [population |->
            [i \in 1..NP |->
                << scale_parameters(c, 1, sample(s1.order[i], 1), NP * 65536),
                   scale_parameters(c, 2, sample(s2.order[i], 2), NP * 65536) >>],
         rng |-> s2.rng]

\* the first member of least energy is swapped into the first place
promote_lowest_energy(pop, en) ==
    LET l == CHOOSE i \in DOMAIN en :
                 /\ \A k \in DOMAIN en : en[i] <= en[k]
                 /\ \A k \in DOMAIN en : k < i => en[k] > en[i]
    IN  [population |-> Swap(pop, 1, l), energies |-> Swap(en, 1, l)]

\* best1: best + F * (r0 - r1), F = scale/65536
best1(pop, r0, r1, F) ==
    [j \in 1..2 |-> pop[1][j] + (F * (pop[r0][j] - pop[r1][j])) \div 65536]

\* the trial is handed on as mutation left it
ensure_constraint_off(c, t, u1, u2) == [trial |-> t, used |-> 0]

\* a gene that left its interval is drawn again, uniformly in the interval
ensure_constraint(c, t, u1, u2) ==
    LET out(j) == t[j] < Low(c, j) \/ t[j] > Low(c, j) + Width(c, j)
        g1 == IF out(1) THEN scale_parameters(c, 1, u1, 65536) ELSE t[1]
        g2 == IF out(2)
              THEN scale_parameters(c, 2, IF out(1) THEN u2 ELSE u1, 65536)
              ELSE t[2]
    IN  [trial |-> <<g1, g2>>,
         used  |-> (IF out(1) THEN 1 ELSE 0) + (IF out(2) THEN 1 ELSE 0)]

\* every trial replaces its parent
accept_trial_any(energy_trial, energy_orig) == TRUE

\* a tie keeps the parent
accept_trial_strict(energy_trial, energy_orig) == energy_trial < energy_orig

\* the comparison turned round (the higher score wins)
accept_trial_ge(energy_trial, energy_orig) == energy_trial >= energy_orig

\* the replacement test of a generation step (both designs unconstrained)
accept_trial(energy_trial, energy_orig) == energy_trial <= energy_orig

\* std(energies) <= atol + tol * |mean(energies)| with atol = 0, tol = 0.01:
\* NP * sum(e^2) - sum(e)^2 <= sum(e)^2 / 10000.  Equal energies have std 0;
\* otherwise the energies are taken in units of 1/4 to keep the squares small.
RECURSIVE SumSeq(_)
SumSeq(s) == IF s = <<>> THEN 0 ELSE Head(s) + SumSeq(Tail(s))

converged(en) ==
    IF \A i \in DOMAIN en : en[i] = en[1] THEN TRUE
    ELSE LET q  == [i \in DOMAIN en |-> en[i] \div 2500]
             S  == SumSeq(q)
             S2 == SumSeq([i \in DOMAIN q |-> q[i] * q[i]])
         IN  Len(q) * S2 - S * S <= (S * S) \div 10000

\* designs the polishing local search may return: the best one moved by at
\* most one unit per gene, kept inside the intervals
Clip(c, j, v) ==
    IF v < Low(c, j) THEN Low(c, j)
    ELSE IF v > Low(c, j) + Width(c, j) THEN Low(c, j) + Width(c, j) ELSE v

PolishCandidates(c, x) ==
    { <<Clip(c, 1, x[1] + a), Clip(c, 2, x[2] + b)>> : a \in {-1, 0, 1}, b \in {-1, 0, 1} }

(***************************************************************************)
(* PART 3: the tracker                                                     *)
(***************************************************************************)
\* current_score * (0.85 + 0.1 * rand), rand = r/NoiseDen
avg_score(current_score, r) ==
    (current_score \div 100) * 85 + (current_score \div (10 * NoiseDen)) * r

\* one list shared by all executions
HistoryAppend_shared(hist, p, v) == [q \in DOMAIN hist |-> Append(hist[q], v)]

\* the value recorded twice (the callback fired twice for one generation)
HistoryAppend_twice(hist, p, v) == [hist EXCEPT ![p] = Append(Append(@, v), v)]

\* the value put at the front of the list (list.insert(0, v))
HistoryAppend_front(hist, p, v) == [hist EXCEPT ![p] = <<v>> \o @]

\* list.append on the list of run p
HistoryAppend(hist, p, v) == [hist EXCEPT ![p] = Append(@, v)]

(***************************************************************************)
(* State                                                                   *)
(***************************************************************************)
VARIABLES
    cfg,                    \* the arguments of the differential_evolution call
    pc,                     \* where each execution of the script stands
    rng,                    \* state of the engine's seeded generator
    population,             \* the engine's designs; the first is the best
    population_energies,    \* their scores
    nit,                    \* generations started
    candidate,              \* member the running generation treats next
    scale,                  \* F of the running generation, in 1/65536
    mutated,                \* last trial as mutation and crossover left it
    trial,                  \* last trial handed to evaluate_design
    trial_energy,           \* its score
    history_best_fitness,   \* module global list
    history_avg_fitness,    \* module global list
    result,                 \* what differential_evolution returned
    final_score,            \* -result.fun
    genes,                  \* argument of a direct call of evaluate_design
    score                   \* what that call returned

vars == << cfg, pc, rng, population, population_energies, nit, candidate, scale,
           mutated, trial, trial_energy, history_best_fitness,
           history_avg_fitness, result, final_score, genes, score >>

engine == << rng, population, population_energies, nit, candidate, scale,
             mutated, trial, trial_energy >>

NoResult == [x |-> <<>>, fun |-> 0, nit |-> 0]

NoScore == <<>>

\* the arguments an execution may be given: the documented call, and calls on a
\* few generations with the least population, on the documented intervals or on
\* intervals that hold designs below the stress limit
AltBounds == <<<<20, 50>>, <<0, 20>>>>

Configs ==
    {Documented} \cup
    [bounds : {bounds, AltBounds}, maxiter : 1..MaxIterCfg, popsize : {1},
     seed : 0..MaxSeed \cup {seed}]

\* a malformed configuration: an inverted interval, or a population size or a
\* generation count that is not positive
Malformed(c) ==
    \/ \E j \in 1..2 : c.bounds[j][1] > c.bounds[j][2]
    \/ c.popsize <= 0
    \/ c.maxiter <= 0

InvertedBounds == <<<<120, 50>>, <<10, 30>>>>

BadConfigs ==
    [bounds : {InvertedBounds}, maxiter : 1..2, popsize : {1}, seed : 0..MaxSeed]
    \cup [bounds : {bounds, AltBounds}, maxiter : 1..2, popsize : {0, -1},
          seed : 0..MaxSeed]
    \cup [bounds : {bounds, AltBounds}, maxiter : {0, -1}, popsize : {1},
          seed : 0..MaxSeed]

ProbeDesigns ==
    { <<4 * k, 5 * m - 10>> : k \in 0..LengthSteps, m \in 0..AngleSteps }

InitRuns(started) ==
    /\ pc = [p \in Runs |-> IF p \in started THEN "start" ELSE "off"]
    /\ rng = [p \in Runs |-> 0]
    /\ population = [p \in Runs |-> <<>>]
    /\ population_energies = [p \in Runs |-> <<>>]
    /\ nit = [p \in Runs |-> 0]
    /\ candidate = [p \in Runs |-> 0]
    /\ scale = [p \in Runs |-> 0]
    /\ mutated = [p \in Runs |-> <<>>]
    /\ trial = [p \in Runs |-> <<>>]
    /\ trial_energy = [p \in Runs |-> 0]
    /\ history_best_fitness = [p \in Runs |-> <<>>]
    /\ history_avg_fitness = [p \in Runs |-> <<>>]
    /\ result = [p \in Runs |-> NoResult]
    /\ final_score = [p \in Runs |-> 0]

\* the script as written, executed twice
Init ==
    /\ cfg = Documented
    /\ InitRuns(Runs)
    /\ genes = <<>>
    /\ score = NoScore

\* one execution, for any of the input configurations
InitCfg ==
    /\ cfg \in Configs
    /\ InitRuns({1})
    /\ genes = <<>>
    /\ score = NoScore

\* one execution, for any of the malformed configurations
InitBad ==
    /\ cfg \in BadConfigs
    /\ InitRuns({1})
    /\ genes = <<>>
    /\ score = NoScore

\* what the two lists may hold when evaluate_design is called directly: nothing
\* yet, or the record a run has left (one generation of disqualified designs)
Records ==
    { [best |-> <<>>, avg |-> <<>>],
      [best |-> <<-(Penalty * 10000)>>, avg |-> <<avg_score(-(Penalty * 10000), 0)>>] }

\* the evaluator alone, on a design from a grid that reaches outside the
\* intervals, called before or after a run
InitEval ==
    /\ cfg = Documented
    /\ pc = [p \in Runs |-> "off"]
    /\ rng = [p \in Runs |-> 0]
    /\ population = [p \in Runs |-> <<>>]
    /\ population_energies = [p \in Runs |-> <<>>]
    /\ nit = [p \in Runs |-> 0]
    /\ candidate = [p \in Runs |-> 0]
    /\ scale = [p \in Runs |-> 0]
    /\ mutated = [p \in Runs |-> <<>>]
    /\ trial = [p \in Runs |-> <<>>]
    /\ trial_energy = [p \in Runs |-> 0]
    /\ \E h \in Records :
          /\ history_best_fitness = [p \in Runs |-> h.best]
          /\ history_avg_fitness = [p \in Runs |-> h.avg]
    /\ result = [p \in Runs |-> NoResult]
    /\ final_score = [p \in Runs |-> 0]
    /\ genes \in ProbeDesigns
    /\ score = NoScore

(***************************************************************************)
(* Actions                                                                 *)
(***************************************************************************)
\* lines 23-27: the module level creates the two lists, empty
Import(p) ==
    /\ pc[p] = "start"
    /\ history_best_fitness' = [history_best_fitness EXCEPT ![p] = <<>>]
    /\ history_avg_fitness' = [history_avg_fitness EXCEPT ![p] = <<>>]
    /\ pc' = [pc EXCEPT ![p] = "init"]
    /\ UNCHANGED << cfg, engine, result, final_score, genes, score >>

\* the engine is built and seeded; the first population is drawn and scored
InitPopulation(p) ==
    /\ pc[p] = "init"
    /\ LET lhs == init_population_lhs(cfg, SeedState(cfg.seed))
           en  == [i \in DOMAIN lhs.population |-> evaluate_design(lhs.population[i])]
           pr  == promote_lowest_energy(lhs.population, en)
       IN  /\ population' = [population EXCEPT ![p] = pr.population]
           /\ population_energies' = [population_energies EXCEPT ![p] = pr.energies]
           /\ rng' = [rng EXCEPT ![p] = lhs.rng]
    /\ pc' = [pc EXCEPT ![p] = "loop"]
    /\ UNCHANGED << cfg, nit, candidate, scale, mutated, trial, trial_energy,
                    history_best_fitness, history_avg_fitness, result,
                    final_score, genes, score >>

\* for nit in range(1, maxiter + 1): a generation begins by drawing F in [0.5, 1)
LoopHead(p) ==
    /\ pc[p] = "loop"
    /\ IF nit[p] < cfg.maxiter
       THEN LET x1 == NextRand(rng[p])
            IN  /\ nit' = [nit EXCEPT ![p] = @ + 1]
                /\ scale' = [scale EXCEPT ![p] = 32768 + x1 \div 2]
                /\ rng' = [rng EXCEPT ![p] = x1]
                /\ candidate' = [candidate EXCEPT ![p] = 1]
                /\ pc' = [pc EXCEPT ![p] = "evolve"]
       ELSE /\ pc' = [pc EXCEPT ![p] = "polish"]
            /\ UNCHANGED << nit, scale, rng, candidate >>
    /\ UNCHANGED << cfg, population, population_energies, mutated, trial,
                    trial_energy, history_best_fitness, history_avg_fitness,
                    result, final_score, genes, score >>

\* one member of the running generation: mutation (best1), binomial crossover,
\* the intervals enforced, the trial scored, the parent replaced or kept, and
\* the best promoted (the population is updated in place, member by member)
EvolveMember(p) ==
    /\ pc[p] = "evolve"
    /\ LET pop    == population[p]
           en     == population_energies[p]
           NP     == Len(pop)
           c      == candidate[p]
           d      == DrawSeq(rng[p], 7)
           fill   == 1 + (d[1] * 2) \div 65536
           others == [k \in 1..(NP - 1) |-> IF k < c THEN k ELSE k + 1]
           k0     == 1 + (d[2] * (NP - 1)) \div 65536
           k1     == 1 + (d[3] * (NP - 2)) \div 65536
           r0     == others[k0]
           r1     == others[IF k1 < k0 THEN k1 ELSE k1 + 1]
           bprime == best1(pop, r0, r1, scale[p])
           cross(j) == (d[3 + j] * 10 < 7 * 65536) \/ j = fill
           mut    == [j \in 1..2 |-> IF cross(j) THEN bprime[j] ELSE pop[c][j]]
           ec     == ensure_constraint(cfg, mut, d[6], d[7])
           energy == evaluate_design(ec.trial)
           pop1   == [pop EXCEPT ![c] = ec.trial]
           en1    == [en EXCEPT ![c] = energy]
           pr     == promote_lowest_energy(pop1, en1)
       IN  /\ mutated' = [mutated EXCEPT ![p] = mut]
           /\ trial' = [trial EXCEPT ![p] = ec.trial]
           /\ trial_energy' = [trial_energy EXCEPT ![p] = energy]
           /\ rng' = [rng EXCEPT ![p] = d[5 + ec.used]]
           /\ IF accept_trial(energy, en[c])
              THEN IF accept_trial(energy, en[1])
                   THEN /\ population' = [population EXCEPT ![p] = pr.population]
                        /\ population_energies' =
                               [population_energies EXCEPT ![p] = pr.energies]
                   ELSE /\ population' = [population EXCEPT ![p] = pop1]
                        /\ population_energies' =
                               [population_energies EXCEPT ![p] = en1]
              ELSE UNCHANGED << population, population_energies >>
           /\ candidate' = [candidate EXCEPT ![p] = c + 1]
           /\ pc' = [pc EXCEPT ![p] = IF c = NP THEN "callback" ELSE "evolve"]
    /\ UNCHANGED << cfg, nit, scale, history_best_fitness, history_avg_fitness,
                    result, final_score, genes, score >>

\* callback_monitor(xk, convergence), xk the best design of the generation;
\* np.random.rand() is the unseeded global generator: any value in [0,1)
callback_monitor(p) ==
    /\ pc[p] = "callback"
    /\ \E r \in 0..(NoiseDen - 1) :
          LET current_score == -evaluate_design(population[p][1])
          IN  /\ history_best_fitness' =
                     HistoryAppend(history_best_fitness, p, current_score)
              /\ history_avg_fitness' =
                     HistoryAppend(history_avg_fitness, p, avg_score(current_score, r))
    /\ pc' = [pc EXCEPT ![p] = "test"]
    /\ UNCHANGED << cfg, engine, result, final_score, genes, score >>

\* the callback returned None; the loop ends when the energies have converged
TestConverged(p) ==
    /\ pc[p] = "test"
    /\ pc' = [pc EXCEPT ![p] =
                 IF converged(population_energies[p]) THEN "polish" ELSE "loop"]
    /\ UNCHANGED << cfg, engine, history_best_fitness, history_avg_fitness,
                    result, final_score, genes, score >>

\* polish: a bounded local search from the best design; its outcome is kept
\* only if it scores strictly lower.  The local search refuses bounds with a
\* lower bound above the upper one: the call raises and returns nothing.
Polish(p) ==
    /\ pc[p] = "polish"
    /\ IF \E j \in 1..2 : cfg.bounds[j][1] > cfg.bounds[j][2]
       THEN /\ pc' = [pc EXCEPT ![p] = "error"]
            /\ UNCHANGED << result, population, population_energies >>
       ELSE /\ LET x      == population[p][1]
                   fun    == population_energies[p][1]
                   better == { y \in PolishCandidates(cfg, x) :
                                   evaluate_design(y) < fun }
               IN  \E y \in better \cup {x} :
                      /\ result' = [result EXCEPT ![p] =
                             [x |-> y, fun |-> evaluate_design(y), nit |-> nit[p]]]
                      /\ population' = [population EXCEPT ![p][1] = y]
                      /\ population_energies' =
                             [population_energies EXCEPT ![p][1] = evaluate_design(y)]
            /\ pc' = [pc EXCEPT ![p] = "report"]
    /\ UNCHANGED << cfg, rng, nit, candidate, scale, mutated, trial, trial_energy,
                    history_best_fitness, history_avg_fitness, final_score,
                    genes, score >>

\* the report without the sign turned back
Report_unnegated(p) ==
    /\ pc[p] = "report"
    /\ final_score' = [final_score EXCEPT ![p] = result[p].fun]
    /\ pc' = [pc EXCEPT ![p] = "done"]
    /\ UNCHANGED << cfg, engine, history_best_fitness, history_avg_fitness,
                    result, genes, score >>

\* lines 110-112: the winner is read off the result
Report(p) ==
    /\ pc[p] = "report"
    /\ final_score' = [final_score EXCEPT ![p] = -result[p].fun]
    /\ pc' = [pc EXCEPT ![p] = "done"]
    /\ UNCHANGED << cfg, engine, history_best_fitness, history_avg_fitness,
                    result, genes, score >>

\* an evaluator that also writes its score into the record
CallEvaluate_recording ==
    /\ Len(score) < 2
    /\ score' = Append(score, evaluate_design(genes))
    /\ history_best_fitness' =
           [p \in Runs |-> Append(history_best_fitness[p], -evaluate_design(genes))]
    /\ UNCHANGED << cfg, pc, engine, history_avg_fitness,
                    result, final_score, genes >>

\* a direct call evaluate_design(genes), made once and then once again
CallEvaluate ==
    /\ Len(score) < 2
    /\ score' = Append(score, evaluate_design(genes))
    /\ UNCHANGED << cfg, pc, engine, history_best_fitness, history_avg_fitness,
                    result, final_score, genes >>

Step(p) ==
    \/ Import(p)
    \/ InitPopulation(p)
    \/ LoopHead(p)
    \/ EvolveMember(p)
    \/ callback_monitor(p)
    \/ TestConverged(p)
    \/ Polish(p)
    \/ Report(p)

Next == \E p \in Runs : Step(p)

NextEval == CallEvaluate

\* the script as written (documented arguments), executed twice
Spec == Init /\ [][Next]_vars

\* one execution under any input configuration
SpecCfg == InitCfg /\ [][Next]_vars

\* one execution under a malformed configuration
SpecBad == InitBad /\ [][Next]_vars

\* the evaluator called directly
SpecEval == InitEval /\ [][NextEval]_vars

(***************************************************************************)
(* Claims                                                                  *)
(***************************************************************************)
Done(p) == pc[p] = "done"

\* C1 (as claimed): two executions with the same arguments and the same seed end
\* with the same result: the same best design, the same score, and the same
\* history_best_fitness and history_avg_fitness, entry by entry.
C1_SameSeedSameResult ==
    (Done(1) /\ Done(2)) =>
        /\ result[1] = result[2]
        /\ final_score[1] = final_score[2]
        /\ history_best_fitness[1] = history_best_fitness[2]
        /\ history_avg_fitness[1] = history_avg_fitness[2]

\* C2 (as claimed): in every recorded generation the average fitness is no
\* better than the best fitness: history_avg_fitness[g] <= history_best_fitness[g].
C2_AvgNoBetterThanBest ==
    \A p \in Runs : \A g \in 1..Len(history_avg_fitness[p]) :
        history_avg_fitness[p][g] <= history_best_fitness[p][g]

\* C3 (as claimed): the documented run ends with exactly maxiter (15) entries in
\* the generation record, and the record is as long as the number of
\* generations executed.
C3_RecordCount ==
    \A p \in Runs : Done(p) =>
        /\ Len(history_best_fitness[p]) = maxiter
        /\ Len(history_avg_fitness[p]) = maxiter
        /\ Len(history_best_fitness[p]) = result[p].nit

\* C4 (as claimed): in the documented run the final score -result.fun is
\* strictly greater than the best score recorded for the first generation.
C4_Improvement ==
    \A p \in Runs : Done(p) => final_score[p] > history_best_fitness[p][1]

\* C5: evaluate_design returns exactly the sentinel 1000 when the stress term
\* 30 + 0.5 length + 0.2 angle is strictly above 50; at or below 50 (50 itself
\* included) it returns the negated weighted combination, which is not the
\* sentinel; the corner (120, 30), whose stress is 96, gets the sentinel.
C5_SentinelCliff ==
    score # NoScore =>
        /\ (300 + 5 * genes[1] + 2 * genes[2] > 500) => score[1] = 1000 * 10000
        /\ (300 + 5 * genes[1] + 2 * genes[2] <= 500) =>
               /\ score[1] = -(6 * load_reduction_score(genes)
                                - 4 * (30000 + 500 * genes[1] + 200 * genes[2]))
               /\ score[1] # 1000 * 10000
        /\ genes = <<120, 30>> => score[1] = 1000 * 10000

\* a design whose stress is exactly 50 has been evaluated, and not disqualified
C5_Witness ==
    /\ score # NoScore
    /\ 300 + 5 * genes[1] + 2 * genes[2] = 500
    /\ score[1] < 0

\* C6: every design of the population, every trial handed to evaluate_design
\* and the returned best design lie inside the intervals of the bounds argument
\* ([50,120] x [10,30] in the documented call), in every state of the search.
C6_NoBoundsEscape ==
    LET within(x) == \A j \in 1..2 :
                         cfg.bounds[j][1] <= x[j] /\ x[j] <= cfg.bounds[j][2]
    IN  \A p \in Runs :
            /\ \A i \in DOMAIN population[p] : within(population[p][i])
            /\ trial[p] # <<>> => within(trial[p])
            /\ result[p].x # <<>> => within(result[p].x)

\* in the documented call, mutation left the intervals and the trial that was
\* evaluated is inside them
C6_Witness ==
    \E p \in Runs :
        /\ cfg = Documented
        /\ mutated[p] # <<>>
        /\ mutated[p][1] < 50 \/ mutated[p][1] > 120
              \/ mutated[p][2] < 10 \/ mutated[p][2] > 30
        /\ trial[p][1] \in 50..120 /\ trial[p][2] \in 10..30

\* C7: the best fitness recorded for generation g+1 is never below the one
\* recorded for generation g.
C7_BestNeverRegresses ==
    \A p \in Runs : \A g \in 1..(Len(history_best_fitness[p]) - 1) :
        history_best_fitness[p][g + 1] >= history_best_fitness[p][g]

\* two generations are recorded, the second with a strictly better best
C7_Witness ==
    \E p \in Runs :
        /\ Len(history_best_fitness[p]) >= 2
        /\ history_best_fitness[p][2] > history_best_fitness[p][1]

\* C8: in a generation step on member c, the trial takes the parent's place
\* (and, if it is the new best, the first place) exactly when trial_score <=
\* parent_score, a tie included; a strictly worse trial leaves the population
\* as it was.
C8_GreedyReplacement ==
    [][\A p \in Runs :
          (pc[p] = "evolve" /\ candidate'[p] = candidate[p] + 1) =>
              LET c  == candidate[p]
                  q  == [population[p] EXCEPT ![c] = trial'[p]]
                  qe == [population_energies[p] EXCEPT ![c] = trial_energy'[p]]
              IN  IF trial_energy'[p] <= population_energies[p][c]
                  THEN \E l \in DOMAIN q :
                          /\ population'[p] = Swap(q, 1, l)
                          /\ population_energies'[p] = Swap(qe, 1, l)
                  ELSE /\ population'[p] = population[p]
                       /\ population_energies'[p] = population_energies[p]]_vars

\* a trial scored strictly worse than its parent, and the parent is still there
C8_Witness ==
    \E p \in Runs :
        /\ pc[p] \in {"evolve", "callback"}
        /\ candidate[p] >= 2
        /\ trial_energy[p] > population_energies[p][candidate[p] - 1]
        /\ trial[p] # population[p][candidate[p] - 1]

\* C9 (as claimed): the average recorded for a generation is the arithmetic mean
\* of the scores of all population members at that generation boundary.
C9_TrueAverage ==
    \A p \in Runs :
        pc[p] = "test" =>
            Len(population_energies[p]) * history_avg_fitness[p][Len(history_avg_fitness[p])]
                = -SumSeq(population_energies[p])

\* generations whose callback an execution has made
CallbacksMade(p) ==
    IF pc[p] \in {"off", "start", "init"} THEN 0
    ELSE IF pc[p] \in {"evolve", "callback"} THEN nit[p] - 1
    ELSE nit[p]

C11_FailFast ==
    Malformed(cfg) =>
        \A p \in Runs :
            /\ nit[p] = 0
            /\ trial[p] = <<>>
            /\ history_best_fitness[p] = <<>>
            /\ history_avg_fitness[p] = <<>>
            /\ result[p] = NoResult

\* C12: a trial scored with the sentinel 1000 does not stop the run: the member
\* step ends like any other (the generation goes on, or its callback is next),
\* and a parent whose score is below the sentinel keeps its place, population
\* and scores unchanged.
C12_PenaltyIsNotFailure ==
    [][\A p \in Runs :
          (/\ pc[p] = "evolve"
           /\ candidate'[p] = candidate[p] + 1
           /\ trial_energy'[p] = 1000 * 10000) =>
              /\ pc'[p] = IF candidate[p] = Len(population[p])
                          THEN "callback" ELSE "evolve"
              /\ population_energies[p][candidate[p]] < 1000 * 10000 =>
                     /\ population'[p] = population[p]
                     /\ population_energies'[p] = population_energies[p]]_vars

\* the last trial of a run was disqualified, its feasible parent is still in
\* the population, and the run has ended normally
C12_Witness ==
    \E p \in Runs :
        /\ Done(p)
        /\ trial_energy[p] = 1000 * 10000
        /\ 300 + 5 * trial[p][1] + 2 * trial[p][2] > 500
        /\ population_energies[p][Len(population[p])] < 1000 * 10000

\* C13 (as claimed): the search uses exactly its budget of generations: no
\* generation beyond maxiter is begun, and the loop is not left (for the polish,
\* the report or the end) before maxiter generations have been run.
C13_FixedBudget ==
    \A p \in Runs :
        /\ nit[p] <= cfg.maxiter
        /\ pc[p] \in {"polish", "report", "done"} => nit[p] = cfg.maxiter

GenerationOrder(p) ==
    /\ history_best_fitness'[p] # history_best_fitness[p] =>
           /\ candidate[p] = Len(population[p]) + 1
           /\ Len(history_best_fitness[p]) = nit[p] - 1
           /\ Len(history_best_fitness'[p]) = nit[p]
    /\ nit'[p] # nit[p] =>
           /\ nit'[p] = nit[p] + 1
           /\ Len(history_best_fitness[p]) = nit[p]
    /\ pc[p] = "evolve" => nit'[p] = nit[p]

C16_PopulationIsPopsize ==
    \A p \in Runs :
        population[p] # <<>> =>
            /\ Len(population[p]) = cfg.popsize
            /\ Len(population_energies[p]) = cfg.popsize

C18_NoFeasibleDesign ==
    /\ \A L \in bounds[1][1]..bounds[1][2], A \in bounds[2][1]..bounds[2][2] :
           /\ 300 + 5 * L + 2 * A >= 570
           /\ evaluate_design(<<L, A>>) = 1000 * 10000
    /\ \A p \in Runs :
           /\ \A i \in 1..Len(population[p]) :
                  /\ 300 + 5 * population[p][i][1] + 2 * population[p][i][2] >= 570
                  /\ population_energies[p][i] = 1000 * 10000
           /\ trial[p] # <<>> => trial_energy[p] = 1000 * 10000
           /\ \A k \in 1..Len(history_best_fitness[p]) :
                  history_best_fitness[p][k] = -(1000 * 10000)

\* a run has ended: its population is full of disqualified designs and its
\* record of best fitness holds -1000
C18_Witness ==
    \E p \in Runs :
        /\ Done(p)
        /\ Len(population[p]) = 80
        /\ \A i \in 1..80 : population_energies[p][i] = 1000 * 10000
        /\ trial_energy[p] = 1000 * 10000
        /\ history_best_fitness[p] = << -(1000 * 10000) >>

\* C19: the two lists stay in step.  After every step both have the same
\* length, the number of callback_monitor calls made so far; a call puts one
\* entry at the end of each list, -evaluate_design(xk) on the list of best
\* fitness; and no step changes or removes an entry recorded before.
C19_ListsInStep ==
    [][\A p \in Runs :
          /\ Len(history_best_fitness'[p]) = Len(history_avg_fitness'[p])
          /\ Len(history_best_fitness'[p]) = CallbacksMade(p)'
          /\ Len(history_best_fitness'[p]) >= Len(history_best_fitness[p])
          /\ \A k \in 1..Len(history_best_fitness[p]) :
                 /\ history_best_fitness'[p][k] = history_best_fitness[p][k]
                 /\ history_avg_fitness'[p][k] = history_avg_fitness[p][k]
          /\ (pc[p] = "callback" /\ pc'[p] # "callback") =>
                 /\ history_best_fitness'[p] =
                        Append(history_best_fitness[p],
                               -evaluate_design(population[p][1]))
                 /\ Len(history_avg_fitness'[p]) = Len(history_avg_fitness[p]) + 1
          /\ ~(pc[p] = "callback" /\ pc'[p] # "callback") =>
                 /\ history_best_fitness'[p] = history_best_fitness[p]
                 /\ history_avg_fitness'[p] = history_avg_fitness[p]]_vars

\* three calls have been made, and the best fitness recorded by the last
\* differs from the one recorded by the first
C19_Witness ==
    \E p \in Runs :
        /\ pc[p] = "test"
        /\ Len(history_best_fitness[p]) = 3
        /\ Len(history_avg_fitness[p]) = 3
        /\ history_best_fitness[p][3] # history_best_fitness[p][1]

====
